---- MODULE Spec2Model ----
(***************************************************************************)
(* PeriodConcatNode (streamer/periodconcat_node.py): a threaded node that  *)
(* polls the PackagerNode(s) of a multi-period pipeline and, once all of   *)
(* them are finished, concatenates their single-period DASH manifests (and *)
(* HLS playlists) into one multi-period manifest.                          *)
(*                                                                         *)
(* Job indices are the Python list indices 0..N-1.  Strings that the code  *)
(* parses (iso8601 durations) are kept as the tokens the regular           *)
(* expression of ISO8601.parse captures; Text renders them as characters.  *)
(***************************************************************************)
EXTENDS FiniteSets, Integers, Sequences, TLC

\* Largest number of PackagerNode(s) handed to the constructor.
MaxJobs == 3

VARIABLES
  packager_status,   \* i -> what packager_nodes[i].check_status() returns now
  packager_output,   \* i -> <<>> or <<mpd>>: the DASH manifest in packager_nodes[i]._output_dir
  manifest_format,   \* pipeline_config.manifest_format
  streaming_mode,    \* pipeline_config.streaming_mode
  m3u8_installed,    \* whether "import m3u8" succeeds in this environment
  status,            \* self._status of the PeriodConcatNode
  pc,                \* where the periodconcat thread is
  i,                 \* loop index of _thread_single_pass
  reads,             \* the statuses read in the current pass, in index order
  exc,               \* <<>> or <<exception>> that left _thread_single_pass
  concat_log,        \* the concatenations invoked so far, with their outcome
  master_dash,       \* <<>> or <<mpd>>: the file output_dir/dash_output
  last_pass,         \* how the last completed pass ended
  out_of_order,      \* whether a packager finished while a lower-indexed one was Running
  calc               \* ISO8601 texts and objects of a calculation outside any pipeline

vars == <<packager_status, packager_output, manifest_format, streaming_mode,
          m3u8_installed, status, pc, i, reads, exc, concat_log,
          master_dash, last_pass, out_of_order, calc>>

config == <<manifest_format, streaming_mode, m3u8_installed>>

\* What a pipeline with its PeriodConcatNode holds.
pipeline == <<packager_status, packager_output, config, status, pc, i, reads, exc,
              concat_log, master_dash, last_pass, out_of_order>>

\* ProcessStatus of node_base.
ProcessStatus == {"Running", "Finished", "Errored"}

Jobs == DOMAIN packager_status

NumJobs == Cardinality(Jobs)

\* In(value), with value computed once.
With(value, In(_)) == CHOOSE result \in {In(v) : v \in {value}} : TRUE

----------------------------------------------------------------------------
(* iso8601 duration texts.  A text that the pattern of ISO8601.parse        *)
(* matches is the record of its six optional groups; a group is missing    *)
(* ("none"), a run of digits ("int"), digits with a decimal point ("dec",  *)
(* seconds only) or present with no digit at all ("empty").  The five      *)
(* integer groups of a matching text are never "dec": [0-9]* has no point. *)
(* A text that str() produces may also have seconds of more than one digit *)
(* after the point ("long"), whose digits are not kept.                    *)

NoGroup == [k |-> "none", n |-> 0, f |-> 0]

IntGroup(n) == [k |-> "int", n |-> n, f |-> 0]

DecGroup(n, f) == [k |-> "dec", n |-> n, f |-> f]

\* A text the pattern does not match.
Unmatched == [match |-> FALSE, y |-> NoGroup, mo |-> NoGroup, d |-> NoGroup,
              t |-> FALSE, h |-> NoGroup, mi |-> NoGroup, s |-> NoGroup]

DurationText(y, mo, d, t, h, mi, s) ==
  [match |-> TRUE, y |-> y, mo |-> mo, d |-> d, t |-> t, h |-> h, mi |-> mi, s |-> s]

GroupText(g, unit) ==
  CASE g.k = "none" -> ""
    [] g.k = "int" -> ToString(g.n) \o unit
    [] g.k = "dec" -> ToString(g.n) \o "." \o ToString(g.f) \o unit
    [] g.k = "long" -> ToString(g.n) \o ".<digits>" \o unit
    [] OTHER -> unit

\* The characters of a duration text.
Text(x) ==
  IF ~x.match THEN "10s"
  ELSE "P" \o GroupText(x.y, "Y") \o GroupText(x.mo, "M") \o GroupText(x.d, "D")
       \o (IF x.t
           THEN "T" \o GroupText(x.h, "H") \o GroupText(x.mi, "M") \o GroupText(x.s, "S")
           ELSE "")

\* seconds is a Python number: an int (the default 0) or a float.  A float is
\* an IEEE 754 double: 0.0, or hi * Limb + lo, a mantissa of 53 bits, times
\* 2^e.  An int n is kept in lo.
Limb == 2^27

Double(hi, lo, e) == [float |-> TRUE, hi |-> hi, lo |-> lo, e |-> e]

IntSeconds(n) == [float |-> FALSE, hi |-> 0, lo |-> n, e |-> 0]

RECURSIVE BitLength(_)
BitLength(x) == IF x = 0 THEN 0 ELSE 1 + BitLength(x \div 2)

RECURSIVE StripZeros(_)
StripZeros(limbs) ==
  IF limbs # <<>> /\ Head(limbs) = 0 THEN StripZeros(Tail(limbs)) ELSE limbs

\* An exact quantity on its way to a double: the number whose digits in
\* base Limb are limbs, times 2^e, and a little more when sticky.
Wide(limbs, e, sticky) == [limbs |-> limbs, e |-> e, sticky |-> sticky]

\* The double nearest to a quantity, ties to the even mantissa: the first 53
\* bits are kept, the s bits after them in the third limb and what follows
\* decide the rounding.
Nearest(w) ==
  With(StripZeros(w.limbs), LAMBDA l :
    IF l = <<>> THEN Double(0, 0, 0)
    ELSE
      LET t == [k \in 1..3 |-> IF k <= Len(l) THEN l[k] ELSE 0]
          sticky == w.sticky \/ \E k \in 4..Len(l) : l[k] # 0
          s == BitLength(t[1]) + 1
          e == w.e + 27 * (Len(l) - 3) + s
          hi == IF s = 28 THEN t[1] \div 2
                ELSE t[1] * 2^(27 - s) + t[2] \div 2^s
          lo == IF s = 28 THEN (t[1] % 2) * 2^26 + t[2] \div 2
                ELSE (t[2] % 2^s) * 2^(27 - s) + t[3] \div 2^s
          rem == IF s = 28 THEN (t[2] % 2) * Limb + t[3] ELSE t[3] % 2^s
          half == 2^(s - 1)
          up == rem > half \/ (rem = half /\ (sticky \/ lo % 2 = 1))
      IN IF ~up THEN Double(hi, lo, e)
         ELSE IF lo + 1 < Limb THEN Double(hi, lo + 1, e)
         ELSE IF hi + 1 < 2^26 THEN Double(hi + 1, 0, e)
         ELSE Double(2^25, 0, e + 1))

\* The digits of a + b in base Limb, from digit k down, a and b of one length.
RECURSIVE AddLimbs(_, _, _, _)
AddLimbs(a, b, k, carry) ==
  IF k = 0 THEN <<carry>>
  ELSE Append(AddLimbs(a, b, k - 1, (a[k] + b[k] + carry) \div Limb),
              (a[k] + b[k] + carry) % Limb)

\* float + float of two doubles that are not negative: the exact sum,
\* rounded.  An operand 2^54 times smaller than the other is rounded away.
DoubleAdd(x, y) ==
  IF x.hi = 0 THEN y
  ELSE IF y.hi = 0 THEN x
  ELSE
    LET big == IF x.e >= y.e THEN x ELSE y
        small == IF x.e >= y.e THEN y ELSE x
        d == big.e - small.e
        r == d % 27
        k == 27 - r
        a == << big.hi \div 2^k,
                (big.hi % 2^k) * 2^r + big.lo \div 2^k,
                (big.lo % 2^k) * 2^r >> \o [z \in 1..(d \div 27) |-> 0]
        b == [z \in 1..(d \div 27 + 1) |-> 0] \o <<small.hi, small.lo>>
    IN IF d >= 54 THEN big
       ELSE Nearest(Wide(AddLimbs(a, b, Len(a), 0), small.e, FALSE))

\* float(n) of an int below Limb.
ToDouble(seconds) ==
  IF seconds.float THEN seconds ELSE Nearest(Wide(<<seconds.lo>>, 0, FALSE))

\* float('n.f'), the text given in tenths: the double nearest to tenths / 10,
\* from three limbs of the quotient after the point.
FloatSeconds(tenths) ==
  LET f1 == ((tenths % 10) * Limb) \div 10
      r1 == ((tenths % 10) * Limb) % 10
      f2 == (r1 * Limb) \div 10
      r2 == (r1 * Limb) % 10
      f3 == (r2 * Limb) \div 10
      r3 == (r2 * Limb) % 10
  IN Nearest(Wide(<<tenths \div 10, f1, f2, f3>>, -81, r3 # 0))

ISO8601(years, months, days, hours, minutes, seconds) ==
  [years |-> years, months |-> months, days |-> days,
   hours |-> hours, minutes |-> minutes, seconds |-> seconds]

\* ISO8601(): every container defaults to the int 0.
ISO8601Zero == ISO8601(0, 0, 0, 0, 0, IntSeconds(0))

\* matches.groups('0')[k] followed by int(): a missing group reads '0'.
GroupInt(g) == IF g.k = "int" THEN g.n ELSE 0

\* float(matches.groups('0')[5]), in tenths.
GroupFloat(g) ==
  CASE g.k = "int" -> 10 * g.n
    [] g.k = "dec" -> 10 * g.n + g.f
    [] OTHER -> 0

\* ISO8601.parse: [err |-> name of the exception or "", val |-> the value].
ISO8601Parse(duration) ==
  IF ~duration.match
  THEN [err |-> "AssertionError", val |-> ISO8601Zero]
  ELSE IF \E g \in {duration.y, duration.mo, duration.d, duration.h, duration.mi,
                      duration.s} : g.k = "empty"
       THEN [err |-> "ValueError", val |-> ISO8601Zero]
       ELSE [err |-> "",
             val |-> ISO8601(GroupInt(duration.y), GroupInt(duration.mo),
                             GroupInt(duration.d), GroupInt(duration.h),
                             GroupInt(duration.mi),
                             FloatSeconds(GroupFloat(duration.s)))]

\* The whole part of a double, or -1 where it is 10^8 or more.
WholePart(x) ==
  IF x.hi = 0 THEN 0
  ELSE IF x.e >= 0 THEN -1
  ELSE IF -x.e >= 53 THEN 0
  ELSE IF -x.e >= 27 THEN x.hi \div 2^(-x.e - 27)
  ELSE IF x.hi \div 2^(-x.e) > 0 THEN -1
  ELSE (x.hi % 2^(-x.e)) * 2^(27 + x.e) + x.lo \div 2^(-x.e)

\* The digits of a float of more than one digit after the point.
LongGroup(n) == [k |-> "long", n |-> n, f |-> 0]

\* A slip in the formatting: a float that is whole prints like an int.
SecondsGroupWholeAsInt(seconds) ==
  IF FloatSeconds(10 * WholePart(seconds)) = seconds
  THEN IntGroup(WholePart(seconds))
  ELSE LongGroup(WholePart(seconds))

\* "{}".format(seconds): an int prints its digits; a float prints the
\* shortest digits that read back as the same float, with a point always:
\* n.f where float('n.f') is the float, else more digits after the point.
SecondsGroup(seconds) ==
  IF ~seconds.float THEN IntGroup(seconds.lo)
  ELSE With(WholePart(seconds), LAMBDA n :
    IF n < 0 \/ n >= 10^8 THEN LongGroup(0)
    ELSE LET exact == {v \in (10 * n)..(10 * n + 9) : FloatSeconds(v) = seconds}
         IN IF exact = {} THEN LongGroup(n)
            ELSE DecGroup((CHOOSE v \in exact : TRUE) \div 10,
                          (CHOOSE v \in exact : TRUE) % 10))

\* ISO8601.__str__
ISO8601Str(self) ==
  DurationText(IntGroup(self.years), IntGroup(self.months), IntGroup(self.days), TRUE,
               IntGroup(self.hours), IntGroup(self.minutes), SecondsGroup(self.seconds))

\* int + int is an int, anything with a float a float.
SecondsAdd(a, b) ==
  IF ~a.float /\ ~b.float
  THEN IntSeconds(a.lo + b.lo)
  ELSE CHOOSE sum \in {DoubleAdd(x, y) : x \in {ToDouble(a)}, y \in {ToDouble(b)}} : TRUE

\* A slip in __add__: the left operand's seconds are lost.
ISO8601AddDropsSeconds(self, other) ==
  ISO8601(self.years + other.years, self.months + other.months,
          self.days + other.days, self.hours + other.hours,
          self.minutes + other.minutes, other.seconds)

\* ISO8601.__add__ (and __iadd__, which returns self + other): the six
\* containers are added one by one.  The operands are bound as values, so
\* that a running total is computed once and not once per container.
ISO8601Add(self, other) ==
  CHOOSE sum \in { ISO8601(a.years + b.years, a.months + b.months,
                           a.days + b.days, a.hours + b.hours,
                           a.minutes + b.minutes, SecondsAdd(a.seconds, b.seconds)) :
                     a \in {self}, b \in {other} } : TRUE

----------------------------------------------------------------------------
(* DASH manifests.  An MPD is its mediaPresentationDuration attribute      *)
(* (<<>> when absent) and its Period children; a Period keeps the packager *)
(* and position it was written at, its id, duration and start attributes,  *)
(* and, for the elements found at AdaptationSet/Representation, the        *)
(* attributes of its SegmentTemplate elements and the texts of its BaseURL *)
(* elements.  A reference is kept as the path os.path takes it for.        *)

NoAttr == <<>>

\* "P0Y0M0DT0H0M10S"
Canonical10 ==
  DurationText(IntGroup(0), IntGroup(0), IntGroup(0), TRUE,
               IntGroup(0), IntGroup(0), IntGroup(10))

\* "PT10.5S", the way the packager writes durations
Packager10_5 ==
  DurationText(NoGroup, NoGroup, NoGroup, TRUE, NoGroup, NoGroup, DecGroup(10, 5))

\* A path or reference as the os.path functions see it: rooted (a leading
\* "/") or not, and its components; the empty string has no component.
Path(rooted, parts) == [rooted |-> rooted, parts |-> parts]

RECURSIVE JoinedParts(_)
JoinedParts(parts) ==
  IF parts = <<>> THEN ""
  ELSE IF Len(parts) = 1 THEN parts[1]
  ELSE parts[1] \o "/" \o JoinedParts(Tail(parts))

\* The string a path stands for.
PathText(p) == (IF p.rooted THEN "/" ELSE "") \o JoinedParts(p.parts)

\* The length of the longest common prefix of two component lists.
RECURSIVE CommonPrefix(_, _)
CommonPrefix(a, b) ==
  IF a = <<>> \/ b = <<>> \/ Head(a) # Head(b) THEN 0
  ELSE 1 + CommonPrefix(Tail(a), Tail(b))

\* os.path.relpath with the arguments exchanged.
RelpathFromPath(path, start) ==
  LET common == CommonPrefix(start, path)
      up == [k \in 1..(Len(path) - common) |-> ".."]
      down == SubSeq(start, common + 1, Len(start))
  IN Path(FALSE, IF up \o down = <<>> THEN <<".">> ELSE up \o down)

\* os.path.relpath(path, start) of two directories under the working
\* directory: up from start to the common ancestor, then down to path.
OsPathRelpath(path, start) ==
  LET common == CommonPrefix(path, start)
      up == [k \in 1..(Len(start) - common) |-> ".."]
      down == SubSeq(path, common + 1, Len(path))
  IN Path(FALSE, IF up \o down = <<>> THEN <<".">> ELSE up \o down)

\* os.path.join(a, b): b alone when b is rooted or a is empty; else a, a
\* separator unless a ends with one, and b.
OsPathJoin(a, b) ==
  IF b.rooted \/ (a.parts = <<>> /\ ~a.rooted) THEN b
  ELSE IF b.parts = <<>> THEN Path(a.rooted, Append(a.parts, ""))
  ELSE IF a.parts # <<>> /\ a.parts[Len(a.parts)] = ""
       THEN Path(a.rooted, SubSeq(a.parts, 1, Len(a.parts) - 1) \o b.parts)
       ELSE Path(a.rooted, a.parts \o b.parts)

\* self._output_dir, and packager_node._output_dir of packager j
output_dir == <<"out">>
PackagerOutputDir(j) == <<"jobs", ToString(j)>>

\* The references a manifest may carry.
InitSegment == Path(FALSE, <<"init.mp4">>)
MediaSegments == Path(FALSE, <<"seg-$Number$.mp4">>)
MediaFile == Path(FALSE, <<"media.mp4">>)
EmptyString == Path(FALSE, <<>>)
RootedFile == Path(TRUE, <<"srv", "media.mp4">>)
HttpSegments == Path(FALSE, <<"http:", "", "cdn", "seg-$Number$.mp4">>)

SegmentTemplate(initialization, media) ==
  [initialization |-> initialization, media |-> media]

\* What the Representations of a period hold: its SegmentTemplate elements
\* and the texts of its BaseURL elements (NoAttr: an element without text).
Segmented == [templates |-> <<SegmentTemplate(<<InitSegment>>, <<MediaSegments>>)>>,
              base_urls |-> <<>>]
MediaOnly == [templates |-> <<SegmentTemplate(NoAttr, <<MediaSegments>>)>>,
              base_urls |-> <<>>]
SingleFile == [templates |-> <<>>, base_urls |-> << <<MediaFile>> >>]
NoText == [templates |-> <<>>, base_urls |-> << NoAttr >>]
Unusual == [templates |-> <<SegmentTemplate(<<EmptyString>>, <<HttpSegments>>)>>,
            base_urls |-> << <<RootedFile>> >>]

PackagerPeriod(j, k, media) ==
  [origin |-> <<j, k>>, id |-> "0", duration |-> NoAttr, start |-> NoAttr,
   templates |-> media.templates, base_urls |-> media.base_urls]

Mpd(j, dur, n, media) ==
  [mediaPresentationDuration |-> dur,
   periods |-> [k \in 1..n |-> PackagerPeriod(j, k, media)]]

\* The manifests packager j may leave in its output directory: a single
\* period with each kind of mediaPresentationDuration, no or two periods,
\* and each kind of reference.
PackagerManifests(j) ==
  { Mpd(j, <<Canonical10>>, 1, Segmented), Mpd(j, <<Packager10_5>>, 1, SingleFile),
    Mpd(j, NoAttr, 1, MediaOnly), Mpd(j, <<Unmatched>>, 1, Segmented),
    Mpd(j, <<Canonical10>>, 0, Segmented), Mpd(j, <<Canonical10>>, 2, Segmented),
    Mpd(j, <<Canonical10>>, 1, NoText), Mpd(j, <<Canonical10>>, 1, Unusual) }

Failed(err) == [err |-> err, total_time |-> ISO8601Zero, periods |-> <<>>]

\* A slip in the id assignment: every period keeps the same id.
PeriodIdConstant(j) == "0"

\* period.attrib['id'] = str(i)
PeriodId(j) == ToString(j)

\* A way to fill in the commented-out line: the manifest's
\* mediaPresentationDuration, where it parses, advances the total.
LiveTotalAdvances(total_time, mpd) ==
  IF mpd.mediaPresentationDuration = NoAttr
     \/ ISO8601Parse(mpd.mediaPresentationDuration[1]).err # ""
  THEN total_time
  ELSE ISO8601Add(total_time, ISO8601Parse(mpd.mediaPresentationDuration[1]).val)

\* LIVE: "#total_time += ISO8601.parse(...)" is a comment; the total stays.
LiveTotalAfter(total_time, mpd) == total_time

\* if segment_template.attrib.get(name): an absent attribute and an empty
\* one are both left as they are; any other is joined to the path.
RewriteAttribute(path_to_segment, attr) ==
  IF attr = NoAttr \/ attr[1] = EmptyString THEN attr
  ELSE <<OsPathJoin(path_to_segment, attr[1])>>

\* The two findall loops over the SegmentTemplate and the BaseURL elements of
\* the Representations of the period of packager j.
RewriteReferences(j, period) ==
  LET path_to_segment == OsPathRelpath(PackagerOutputDir(j), output_dir) IN
    IF \E b \in DOMAIN period.base_urls : period.base_urls[b] = NoAttr
    THEN [err |-> "AssertionError", period |-> period]
    ELSE [err |-> "",
          period |->
            [period EXCEPT
               !.templates =
                 [t \in DOMAIN @ |->
                    SegmentTemplate(
                      RewriteAttribute(path_to_segment, @[t].initialization),
                      RewriteAttribute(path_to_segment, @[t].media))],
               !.base_urls =
                 [b \in DOMAIN @ |-> <<OsPathJoin(path_to_segment, @[b][1])>>]]]

\* The for loop of _dash_concat from packager j on: the periods collected and
\* the running total, or the exception that ends it.
RECURSIVE CollectPeriods(_, _, _)
CollectPeriods(j, total_time, periods) ==
  IF j >= NumJobs
  THEN [err |-> "", total_time |-> total_time, periods |-> periods]
  ELSE IF packager_output[j] = <<>>
  THEN Failed("FileNotFoundError")
  ELSE LET mpd == packager_output[j][1] IN
    IF mpd.periods = <<>>
    THEN Failed("AssertionError")
    ELSE LET period == [Head(mpd.periods) EXCEPT !.id = PeriodId(j)] IN
      IF streaming_mode = "VOD"
      THEN IF mpd.mediaPresentationDuration = NoAttr
           THEN Failed("KeyError")
           ELSE LET timed == [period EXCEPT !.duration = mpd.mediaPresentationDuration]
                    parsed == ISO8601Parse(timed.duration[1])
                IN IF parsed.err # ""
                   THEN Failed(parsed.err)
                   ELSE With(RewriteReferences(j, timed), LAMBDA moved :
                     IF moved.err # ""
                     THEN Failed(moved.err)
                     ELSE CollectPeriods(j + 1, ISO8601Add(total_time, parsed.val),
                                         Append(periods, moved.period)))
      ELSE LET timed == [period EXCEPT !.start = <<ISO8601Str(total_time)>>]
           IN With(RewriteReferences(j, timed), LAMBDA moved :
                IF moved.err # ""
                THEN Failed(moved.err)
                ELSE CollectPeriods(j + 1, LiveTotalAfter(total_time, mpd),
                                    Append(periods, moved.period)))

\* The output file opened before the loop over the packagers has ended.
MasterDashAlways(err, ref_mpd) == <<ref_mpd>>

\* with open(output_dir/dash_output, 'w'): reached only when nothing was
\* raised before; then the document is written.
MasterDash(err, ref_mpd) == IF err = "" THEN <<ref_mpd>> ELSE <<>>

\* A slip: an empty list of packagers is taken as nothing to do.
NoPackagerNodesIgnored == [err |-> "", written |-> <<>>]

\* self._packager_nodes[0] with no packager in the list
NoPackagerNodes == [err |-> "IndexError", written |-> <<>>]

\* _dash_concat: [err |-> the exception or "", written |-> what is written to
\* output_dir/dash_output (<<>>: the file is not opened)].
DashConcat ==
  IF NumJobs = 0
  THEN NoPackagerNodes
  ELSE IF packager_output[0] = <<>>
  THEN [err |-> "FileNotFoundError", written |-> <<>>]
  ELSE LET first == packager_output[0][1] IN
    IF first.periods = <<>>
    THEN [err |-> "AssertionError", written |-> <<>>]
    ELSE LET ref_mpd == [first EXCEPT !.periods = Tail(@)] IN
      With(CollectPeriods(0, ISO8601Zero, <<>>), LAMBDA loop :
        [err |-> loop.err,
         written |->
           MasterDash(loop.err,
             [mediaPresentationDuration |->
                IF streaming_mode = "VOD"
                THEN <<ISO8601Str(loop.total_time)>>
                ELSE ref_mpd.mediaPresentationDuration,
              periods |-> ref_mpd.periods \o loop.periods])])

\* _hls_concat: its whole body is "import m3u8".
HlsConcat ==
  IF m3u8_installed
  THEN [err |-> "", written |-> <<>>]
  ELSE [err |-> "ModuleNotFoundError", written |-> <<>>]

----------------------------------------------------------------------------
(* The pipeline: the packagers change status on their own; the             *)
(* periodconcat thread runs _thread_single_pass again and again, one       *)
(* check_status() call at a time.                                          *)

Init ==
  /\ \E n \in 0..MaxJobs :
       /\ packager_status = [j \in 0..(n - 1) |-> "Running"]
       /\ packager_output = [j \in 0..(n - 1) |-> <<>>]
  /\ manifest_format \in (SUBSET {"DASH", "HLS"}) \ {{}}
  /\ streaming_mode \in {"VOD", "LIVE"}
  /\ m3u8_installed \in BOOLEAN
  /\ status = "Running"
  /\ pc = "sleep"
  /\ i = 0
  /\ reads = <<>>
  /\ exc = <<>>
  /\ concat_log = <<>>
  /\ master_dash = <<>>
  /\ last_pass = "none"
  /\ out_of_order = FALSE
  /\ calc = <<>>

\* A packager ends well: its manifest is in its output directory.
PackagerFinishes(j) ==
  /\ packager_status[j] = "Running"
  /\ packager_status' = [packager_status EXCEPT ![j] = "Finished"]
  /\ \E mpd \in PackagerManifests(j) :
       packager_output' = [packager_output EXCEPT ![j] = <<mpd>>]
  /\ out_of_order' = (out_of_order \/ \E k \in Jobs : k < j /\ packager_status[k] = "Running")
  /\ UNCHANGED <<calc, config, status, pc, i, reads, exc, concat_log, master_dash, last_pass>>

\* A packager fails.
PackagerErrors(j) ==
  /\ packager_status[j] = "Running"
  /\ packager_status' = [packager_status EXCEPT ![j] = "Errored"]
  /\ UNCHANGED <<calc, packager_output, config, status, pc, i, reads, exc, concat_log,
                 master_dash, last_pass, out_of_order>>

\* super().__init__(..., continue_on_exception=False, ...)
continue_on_exception == FALSE

\* The thread's loop on an exception of a pass: it quits unless told to continue.
StatusAfterException == IF continue_on_exception THEN "Running" ELSE "Errored"

\* An exception leaves _thread_single_pass.
Raise(e) ==
  /\ exc' = <<e>>
  /\ status' = StatusAfterException
  /\ pc' = "sleep"
  /\ last_pass' = "raised"

\* The thread's loop runs a pass while the node's status is Running.
PassStarts ==
  /\ pc = "sleep"
  /\ status = "Running"
  /\ pc' = "poll"
  /\ i' = 0
  /\ reads' = <<>>
  /\ UNCHANGED <<calc, packager_status, packager_output, config, status, exc, concat_log,
                 master_dash, last_pass, out_of_order>>

\* A slip in the status test: a running packager does not end the pass.
StatusBranchIgnoresRunning(s) ==
  CASE s = "Errored" -> "raise"
    [] OTHER -> "next"

\* A slip in the status test: an errored packager counts as done.
StatusBranchIgnoresErrored(s) ==
  CASE s = "Running" -> "return"
    [] OTHER -> "next"

\* if status == Running: return / elif status == Errored: raise
StatusBranch(s) ==
  CASE s = "Running" -> "return"
    [] s = "Errored" -> "raise"
    [] OTHER -> "next"

\* A slip in the message: it names the last packager, not the errored one.
PackagerErroredNamesLast(j) == [type |-> "RuntimeError", node |-> NumJobs - 1]

\* RuntimeError("PeriodConcatNode: 'PackagerNode#{} Errored, ...'".format(i))
PackagerErrored(j) == [type |-> "RuntimeError", node |-> j]

\* An exception of a concatenation names no packager.
ConcatFailed(err) == [type |-> err, node |-> -1]

\* A slip in the order of the two concatenations.
PassOrderHlsFirst == <<"hls", "dash", "finish">>

\* After the for loop: _dash_concat, then _hls_concat, then the status.
PassOrder == <<"dash", "hls", "finish">>

\* The step that follows step `at` of a pass ("poll": the for loop).
StepAfter(at) ==
  IF at = "poll" THEN PassOrder[1]
  ELSE PassOrder[(CHOOSE k \in 1..Len(PassOrder) : PassOrder[k] = at) + 1]

\* One iteration of the for loop: packager_nodes[i].check_status().
CheckStatus ==
  /\ pc = "poll"
  /\ i < NumJobs
  /\ LET s == packager_status[i] IN
     /\ reads' = Append(reads, s)
     /\ CASE StatusBranch(s) = "return" ->
               /\ pc' = "sleep"
               /\ last_pass' = "skipped"
               /\ UNCHANGED <<i, status, exc>>
          [] StatusBranch(s) = "raise" ->
               /\ Raise(PackagerErrored(i))
               /\ UNCHANGED i
          [] OTHER ->
               /\ i' = i + 1
               /\ UNCHANGED <<pc, status, exc, last_pass>>
  /\ UNCHANGED <<calc, packager_status, packager_output, config, concat_log, master_dash,
                 out_of_order>>

\* The for loop ends: no packager was Running or Errored.
LoopEnds ==
  /\ pc = "poll"
  /\ i >= NumJobs
  /\ pc' = StepAfter("poll")
  /\ UNCHANGED <<calc, packager_status, packager_output, config, status, i, reads, exc,
                 concat_log, master_dash, last_pass, out_of_order>>

\* The concatenation of a format.
Concatenate(format) == IF format = "DASH" THEN DashConcat ELSE HlsConcat

\* A concatenation of a pass: skipped if its format is not configured.
Concat(at, format) ==
  /\ pc = at
  /\ IF format \notin manifest_format
     THEN /\ pc' = StepAfter(at)
          /\ UNCHANGED <<status, exc, concat_log, master_dash, last_pass>>
     ELSE \E result \in {Concatenate(format)} :
          /\ concat_log' = Append(concat_log, [format |-> format, err |-> result.err])
          /\ master_dash' = IF result.written # <<>> THEN result.written ELSE master_dash
          /\ IF result.err = ""
             THEN /\ pc' = StepAfter(at)
                  /\ UNCHANGED <<status, exc, last_pass>>
             ELSE Raise(ConcatFailed(result.err))
  /\ UNCHANGED <<calc, packager_status, packager_output, config, i, reads, out_of_order>>

\* if(ManifestFormat.DASH in manifest_format): self._dash_concat()
DashConcatStep == Concat("dash", "DASH")

\* if(ManifestFormat.HLS in manifest_format): self._hls_concat()
HlsConcatStep == Concat("hls", "HLS")

\* A slip: the pass forgets to report that it is done.
StatusAfterConcatStale == "Running"

\* self._status = ProcessStatus.Finished
StatusAfterConcat == "Finished"

SetFinished ==
  /\ pc = "finish"
  /\ status' = StatusAfterConcat
  /\ pc' = "sleep"
  /\ last_pass' = "concatenated"
  /\ UNCHANGED <<calc, packager_status, packager_output, config, i, reads, exc, concat_log,
                 master_dash, out_of_order>>

\* A step of the periodconcat thread.
Thread == PassStarts \/ CheckStatus \/ LoopEnds \/ DashConcatStep \/ HlsConcatStep
          \/ SetFinished

Packagers == \E j \in Jobs : PackagerFinishes(j) \/ PackagerErrors(j)

Next == Thread \/ Packagers

Spec == Init /\ [][Next]_vars

\* The thread is scheduled again and again.
FairSpec == Spec /\ WF_vars(Thread)

----------------------------------------------------------------------------
(* The ISO8601 class on its own: three duration texts in canonical form    *)
(* are parsed, the objects are added in both orders and groupings, and     *)
(* printed.                                                                *)

\* Largest seconds, in tenths, of the texts with a fraction.
MaxTenths == 3

\* The seconds of the texts: 0.0 to MaxTenths / 10, "10" and "10.5".
CanonicalSeconds ==
  {DecGroup(v \div 10, v % 10) : v \in 0..MaxTenths} \cup {IntGroup(10), DecGroup(10, 5)}

\* "P0Y0M0DT<h>H0M<s>S" with 0 or 30 hours.
CanonicalTexts ==
  { DurationText(IntGroup(0), IntGroup(0), IntGroup(0), TRUE, IntGroup(h), IntGroup(0), s) :
      h \in {0, 30}, s \in CanonicalSeconds }

CalcInit ==
  /\ packager_status = <<>>
  /\ packager_output = <<>>
  /\ manifest_format = {"DASH"}
  /\ streaming_mode = "VOD"
  /\ m3u8_installed = TRUE
  /\ status = "Running"
  /\ pc = "sleep"
  /\ i = 0
  /\ reads = <<>>
  /\ exc = <<>>
  /\ concat_log = <<>>
  /\ master_dash = <<>>
  /\ last_pass = "none"
  /\ out_of_order = FALSE
  /\ \E a \in CanonicalTexts, b \in CanonicalTexts, c \in CanonicalTexts :
       calc = [texts |-> <<a, b, c>>, objects |-> <<>>, sums |-> <<>>, strs |-> <<>>]

\* ISO8601.parse of each text
CalcParse ==
  /\ calc.objects = <<>>
  /\ \A k \in 1..3 : ISO8601Parse(calc.texts[k]).err = ""
  /\ calc' = [calc EXCEPT !.objects = [k \in 1..3 |-> ISO8601Parse(calc.texts[k]).val]]
  /\ UNCHANGED pipeline

\* a + b, b + a, (a + b) + c and a + (b + c)
CalcAdd ==
  /\ calc.objects # <<>>
  /\ calc.sums = <<>>
  /\ \E a \in {calc.objects[1]}, b \in {calc.objects[2]}, c \in {calc.objects[3]} :
       calc' = [calc EXCEPT !.sums =
                  <<[ab |-> ISO8601Add(a, b),
                     ba |-> ISO8601Add(b, a),
                     ab_c |-> ISO8601Add(ISO8601Add(a, b), c),
                     a_bc |-> ISO8601Add(a, ISO8601Add(b, c))]>>]
  /\ UNCHANGED pipeline

\* str of each object
CalcStr ==
  /\ calc.objects # <<>>
  /\ calc.strs = <<>>
  /\ calc' = [calc EXCEPT !.strs = [k \in 1..3 |-> ISO8601Str(calc.objects[k])]]
  /\ UNCHANGED pipeline

CalcNext == CalcParse \/ CalcAdd \/ CalcStr

CalcSpec == CalcInit /\ [][CalcNext]_vars

----------------------------------------------------------------------------
(* Properties.                                                             *)

\* The pass is past its for loop: a concatenation is about to run or has run.
Concatenating == pc \in {"dash", "hls", "finish"}

AllFinished == \A j \in Jobs : packager_status[j] = "Finished"

\* The step that ends the polling of a pass.
PollingEnds == pc = "poll" /\ pc' # "poll"

\* A pass that changes nothing but the thread's position.
NoOpPass ==
  /\ pc' = "sleep"
  /\ status' = "Running"
  /\ exc' = <<>>
  /\ concat_log' = concat_log
  /\ master_dash' = master_dash

Terminal == status \in {"Finished", "Errored"}

Invoked(format) == {k \in 1..Len(concat_log) : concat_log[k].format = format}

DashSucceeded ==
  \E k \in 1..Len(concat_log) : concat_log[k].format = "DASH" /\ concat_log[k].err = ""

\* C1: a concatenation starts only in a pass that read every packager, in
\* index order, as Finished, and every packager is Finished (none Running)
\* for as long as the concatenation steps of the pass run.
C1_ConcatOnlyAfterAllFinished ==
  Concatenating =>
    /\ Len(reads) = NumJobs
    /\ \A k \in 1..Len(reads) : reads[k] = "Finished"
    /\ AllFinished

\* A pass skipped on a running packager, a later one read packagers that had
\* finished out of index order and reached the DASH concatenation.
C1_Witness ==
  /\ pc = "dash"
  /\ NumJobs >= 2
  /\ last_pass = "skipped"
  /\ out_of_order
  /\ Len(reads) = NumJobs

C4_ConcatAtMostOnce ==
  /\ [](\A format \in {"DASH", "HLS"} : Cardinality(Invoked(format)) <= 1)
  /\ []((concat_log # <<>> /\ pc = "sleep") => Terminal)
  /\ [][Terminal => /\ status' = status
                    /\ pc' = pc
                    /\ reads' = reads
                    /\ concat_log' = concat_log
                    /\ master_dash' = master_dash]_vars

\* Both concatenations ran, once each, and the node is Finished.
C4_Witness ==
  /\ status = "Finished"
  /\ pc = "sleep"
  /\ Cardinality(Invoked("DASH")) = 1
  /\ Cardinality(Invoked("HLS")) = 1

\* C5: once a packager reports Errored, no concatenation is or was invoked
\* and the node is not Finished.
C5_ErroredPackagerNoConcat ==
  (\E j \in Jobs : packager_status[j] = "Errored") =>
    /\ concat_log = <<>>
    /\ ~Concatenating
    /\ status # "Finished"
    /\ master_dash = <<>>

\* The node quit on an errored packager after others had finished.
C5_Witness ==
  /\ status = "Errored"
  /\ last_pass = "raised"
  /\ \E j \in Jobs : packager_status[j] = "Errored"
  /\ \E j \in Jobs : packager_status[j] = "Finished"
  /\ concat_log = <<>>

\* C6: the packager index in the RuntimeError is that of a packager read as
\* Errored in that pass, and no lower-indexed packager is Errored.
C6_ErrorNamesLowestErrored ==
  (exc # <<>> /\ exc[1].type = "RuntimeError") =>
    LET n == exc[1].node IN
    /\ n \in Jobs
    /\ Len(reads) = n + 1
    /\ reads[n + 1] = "Errored"
    /\ packager_status[n] = "Errored"
    /\ \A k \in Jobs : k < n => packager_status[k] # "Errored"

\* Packagers 1 and 2 both errored; the error names 1.
C6_Witness ==
  /\ NumJobs = 3
  /\ exc = <<[type |-> "RuntimeError", node |-> 1]>>
  /\ packager_status[0] = "Finished"
  /\ packager_status[1] = "Errored"
  /\ packager_status[2] = "Errored"

\* Every configured concatenation would succeed on the manifests at hand.
ConcatsSucceed ==
  /\ "DASH" \in manifest_format => DashConcat.err = ""
  /\ "HLS" \in manifest_format => HlsConcat.err = ""

\* C7: once every packager is Finished, with manifests on which every
\* configured concatenation succeeds, the node, its thread being scheduled
\* fairly, eventually is Finished and stays Finished.
C7_EventuallyFinished ==
  (AllFinished /\ ConcatsSucceed) ~> [](status = "Finished")

\* Three packagers finished, not in index order, and the node is Finished.
C7_Witness ==
  /\ NumJobs = 3
  /\ AllFinished
  /\ out_of_order
  /\ status = "Finished"
  /\ last_pass = "concatenated"

\* The configured formats in the order DASH, HLS.
ConfiguredOrder == SelectSeq(<<"DASH", "HLS">>, LAMBDA format : format \in manifest_format)

\* C8: the concatenations invoked are a prefix of the configured formats in
\* the order DASH, HLS; the node is Finished only if all of them were invoked
\* and none failed; a failed one is the last invoked and leaves the node
\* Errored with the thread at rest.
C8_FinishedOnlyIfAllConcatsSucceed ==
  /\ Len(concat_log) <= Len(ConfiguredOrder)
  /\ \A k \in 1..Len(concat_log) :
       /\ concat_log[k].format = ConfiguredOrder[k]
       /\ concat_log[k].err # "" =>
            /\ k = Len(concat_log)
            /\ status = "Errored"
            /\ pc = "sleep"
            /\ exc = <<[type |-> concat_log[k].err, node |-> -1]>>
  /\ status = "Finished" =>
       /\ Len(concat_log) = Len(ConfiguredOrder)
       /\ \A k \in 1..Len(concat_log) : concat_log[k].err = ""

\* DASH and HLS configured, m3u8 at hand: the DASH concatenation failed, the
\* HLS one was not invoked and the node is Errored.
C8_Witness ==
  /\ manifest_format = {"DASH", "HLS"}
  /\ m3u8_installed
  /\ status = "Errored"
  /\ Len(concat_log) = 1
  /\ concat_log[1].format = "DASH"
  /\ concat_log[1].err # ""
  /\ AllFinished
  /\ NumJobs >= 1

\* Every packager's manifest is at hand and holds exactly one Period.
SinglePeriodManifests ==
  \A j \in Jobs :
    packager_output[j] # <<>> /\ Len(packager_output[j][1].periods) = 1

\* C9: after a successful DASH concatenation of N >= 1 manifests of one
\* Period each, the written MPD has exactly N Period elements; the k-th is
\* the Period of packager k's manifest and has the id str(k); the ids are
\* distinct; this holds in whatever order the packagers finished.
C9_PeriodsInIndexOrder ==
  (NumJobs >= 1 /\ DashSucceeded /\ SinglePeriodManifests) =>
    /\ master_dash # <<>>
    /\ Len(master_dash[1].periods) = NumJobs
    /\ \A j \in Jobs :
         /\ master_dash[1].periods[j + 1].origin = <<j, 1>>
         /\ master_dash[1].periods[j + 1].id = ToString(j)
    /\ \A j, k \in Jobs :
         j # k => master_dash[1].periods[j + 1].id # master_dash[1].periods[k + 1].id

\* Three packagers finished out of index order; the periods read "0", "1", "2".
C9_Witness ==
  /\ NumJobs = 3
  /\ out_of_order
  /\ DashSucceeded
  /\ SinglePeriodManifests
  /\ master_dash # <<>>
  /\ [k \in 1..3 |-> master_dash[1].periods[k].id] = <<"0", "1", "2">>

\* The Period that the concatenation took from packager j's manifest.
PeriodsOf(j) ==
  {k \in 1..Len(master_dash[1].periods) : master_dash[1].periods[k].origin = <<j, 1>>}

\* The sum of f[0], ..., f[n - 1].
RECURSIVE SumTo(_, _)
SumTo(f, n) == IF n = 0 THEN 0 ELSE f[n - 1] + SumTo(f, n - 1)

\* The parsed mediaPresentationDuration of packager j's manifest.
ParsedDuration(j) == ISO8601Parse(packager_output[j][1].mediaPresentationDuration[1]).val

\* The container-wise sum of the packagers' durations, seconds being a float.
SumOfDurations ==
  ISO8601(SumTo([j \in Jobs |-> ParsedDuration(j).years], NumJobs),
          SumTo([j \in Jobs |-> ParsedDuration(j).months], NumJobs),
          SumTo([j \in Jobs |-> ParsedDuration(j).days], NumJobs),
          SumTo([j \in Jobs |-> ParsedDuration(j).hours], NumJobs),
          SumTo([j \in Jobs |-> ParsedDuration(j).minutes], NumJobs),
          FloatSeconds(SumTo([j \in Jobs |->
                                GroupFloat(packager_output[j][1].mediaPresentationDuration[1].s)],
                             NumJobs)))

\* VOD: each period's duration is its packager's mediaPresentationDuration
\* and the written mediaPresentationDuration is the formatted sum.
VodDurations ==
  /\ master_dash # <<>>
  /\ \A j \in Jobs :
       /\ PeriodsOf(j) # {}
       /\ \A k \in PeriodsOf(j) :
            master_dash[1].periods[k].duration
              = packager_output[j][1].mediaPresentationDuration
  /\ master_dash[1].mediaPresentationDuration = <<ISO8601Str(SumOfDurations)>>

\* Three packagers, each manifest with mediaPresentationDuration "P0Y0M0DT0H0M10S".
ThreeOfTenSeconds ==
  /\ NumJobs = 3
  /\ \A j \in Jobs :
       /\ packager_output[j] # <<>>
       /\ packager_output[j][1].mediaPresentationDuration # NoAttr
       /\ Text(packager_output[j][1].mediaPresentationDuration[1]) = "P0Y0M0DT0H0M10S"

\* The texts of the period durations and of the mediaPresentationDuration written.
WrittenDurationsRead(period, total) ==
  /\ \A j \in Jobs : \A k \in PeriodsOf(j) :
       Text(master_dash[1].periods[k].duration[1]) = period
  /\ Text(master_dash[1].mediaPresentationDuration[1]) = total

\* C10 as stated: in VOD mode, after a successful DASH concatenation, each
\* period's duration is its packager's mediaPresentationDuration and the
\* written mediaPresentationDuration is the formatted sum; for three
\* packagers of 10 seconds each the periods read "P0Y0M0DT0H0M10S" and the
\* total reads "P0Y0M0DT0H0M30S".
C10_TotalReads30S ==
  (streaming_mode = "VOD" /\ DashSucceeded) =>
    /\ VodDurations
    /\ ThreeOfTenSeconds => WrittenDurationsRead("P0Y0M0DT0H0M10S", "P0Y0M0DT0H0M30S")

\* C10, amended: as stated, except that the seconds of the total are a
\* float and print with a decimal point: the total reads "P0Y0M0DT0H0M30.0S".
C10_TotalReads30Point0S ==
  (streaming_mode = "VOD" /\ DashSucceeded) =>
    /\ VodDurations
    /\ ThreeOfTenSeconds => WrittenDurationsRead("P0Y0M0DT0H0M10S", "P0Y0M0DT0H0M30.0S")

\* VOD, three packagers of 10 seconds each, concatenated.
C10_Witness ==
  /\ streaming_mode = "VOD"
  /\ DashSucceeded
  /\ ThreeOfTenSeconds
  /\ SinglePeriodManifests
  /\ master_dash # <<>>
  /\ Text(master_dash[1].mediaPresentationDuration[1]) = "P0Y0M0DT0H0M30.0S"

\* The periods that the concatenation collected, in the written MPD.
Collected == UNION {PeriodsOf(j) : j \in Jobs}

DurationsKnown ==
  \A j \in Jobs :
    /\ packager_output[j] # <<>>
    /\ packager_output[j][1].mediaPresentationDuration # NoAttr
    /\ ISO8601Parse(packager_output[j][1].mediaPresentationDuration[1]).err = ""

\* The sum of the durations of the packagers before j.
RECURSIVE DurationBefore(_)
DurationBefore(j) ==
  IF j = 0 THEN ISO8601Zero
  ELSE ISO8601Add(DurationBefore(j - 1), ParsedDuration(j - 1))

\* C11: in LIVE mode, after a successful DASH concatenation, the start of
\* the period of packager j is the formatted sum of the durations of the
\* periods of the packagers before j.
C11_StartIsSumOfPriorDurations ==
  (streaming_mode = "LIVE" /\ DashSucceeded /\ DurationsKnown) =>
    \A j \in Jobs : \A k \in PeriodsOf(j) :
      master_dash[1].periods[k].start = <<ISO8601Str(DurationBefore(j))>>

\* The Period element packager j's manifest holds first.
SourcePeriod(j) == Head(packager_output[j][1].periods)

\* The reference with "../jobs/j" and a separator in front.
Prefixed(j, reference) == Path(FALSE, <<"..", "jobs", ToString(j)>> \o reference.parts)

\* Every reference of the periods collected, paired with what it was in the
\* packager's manifest: the SegmentTemplate attributes and the BaseURL texts.
SameShape(j, k) ==
  /\ DOMAIN master_dash[1].periods[k].templates = DOMAIN SourcePeriod(j).templates
  /\ DOMAIN master_dash[1].periods[k].base_urls = DOMAIN SourcePeriod(j).base_urls

AttributePairs(j, k) ==
  UNION { { <<SourcePeriod(j).templates[t].initialization,
              master_dash[1].periods[k].templates[t].initialization>>,
            <<SourcePeriod(j).templates[t].media,
              master_dash[1].periods[k].templates[t].media>> } :
          t \in DOMAIN SourcePeriod(j).templates }

TextPairs(j, k) ==
  { <<SourcePeriod(j).base_urls[b], master_dash[1].periods[k].base_urls[b]>> :
    b \in DOMAIN SourcePeriod(j).base_urls }

\* C12 as stated: after a successful DASH concatenation every SegmentTemplate
\* initialization and media attribute that is present, and every BaseURL
\* text, is the relative path to the packager's directory, a separator and
\* the original reference; an absent attribute stays absent.
C12_PresentReferencesPrefixed ==
  DashSucceeded =>
    \A j \in Jobs : \A k \in PeriodsOf(j) :
      /\ SameShape(j, k)
      /\ \A pair \in AttributePairs(j, k) :
           IF pair[1] = NoAttr THEN pair[2] = NoAttr
           ELSE pair[2] = <<Prefixed(j, pair[1][1])>>
      /\ \A pair \in TextPairs(j, k) : pair[2] = <<Prefixed(j, pair[1][1])>>

\* What os.path.join makes of a reference: one that starts with "/" stays.
JoinedTo(j, reference) == IF reference.rooted THEN reference ELSE Prefixed(j, reference)

\* C12: after a successful DASH concatenation every SegmentTemplate
\* initialization and media attribute that is present and not empty, and
\* every BaseURL text, is the original reference itself when it starts with
\* "/" and else "../jobs/j", a separator and the original reference; an
\* absent attribute stays absent and an empty one stays empty.
C12_NonEmptyReferencesJoined ==
  DashSucceeded =>
    \A j \in Jobs : \A k \in PeriodsOf(j) :
      /\ SameShape(j, k)
      /\ \A pair \in AttributePairs(j, k) :
           IF pair[1] = NoAttr \/ pair[1] = <<EmptyString>> THEN pair[2] = pair[1]
           ELSE pair[2] = <<JoinedTo(j, pair[1][1])>>
      /\ \A pair \in TextPairs(j, k) : pair[2] = <<JoinedTo(j, pair[1][1])>>

\* Three packagers: the first manifest has an empty and a rooted reference,
\* the second no initialization attribute, the third both attributes; the
\* media attribute of the third period reads "../jobs/2/seg-$Number$.mp4".
C12_Witness ==
  /\ DashSucceeded
  /\ NumJobs = 3
  /\ SinglePeriodManifests
  /\ Len(master_dash[1].periods) = 3
  /\ SourcePeriod(0).templates = Unusual.templates
  /\ SourcePeriod(0).base_urls = Unusual.base_urls
  /\ SourcePeriod(1).templates = MediaOnly.templates
  /\ SourcePeriod(2).templates = Segmented.templates
  /\ master_dash[1].periods[1].templates[1].initialization = <<EmptyString>>
  /\ PathText(master_dash[1].periods[1].base_urls[1][1]) = "/srv/media.mp4"
  /\ SourcePeriod(1).templates[1].initialization = NoAttr
  /\ master_dash[1].periods[2].templates[1].initialization = NoAttr
  /\ PathText(SourcePeriod(2).templates[1].media[1]) = "seg-$Number$.mp4"
  /\ PathText(master_dash[1].periods[3].templates[1].media[1]) = "../jobs/2/seg-$Number$.mp4"
  /\ PathText(master_dash[1].periods[3].templates[1].initialization[1]) = "../jobs/2/init.mp4"

\* A reference that is a URI with a scheme.
HasScheme(reference) ==
  /\ ~reference.rooted
  /\ reference.parts # <<>>
  /\ reference.parts[1] \in {"http:", "https:"}

\* Some reference of packager j's first Period is a URI with a scheme.
AbsoluteReference(j) ==
  \/ \E t \in DOMAIN SourcePeriod(j).templates :
       \/ /\ SourcePeriod(j).templates[t].initialization # NoAttr
          /\ HasScheme(SourcePeriod(j).templates[t].initialization[1])
       \/ /\ SourcePeriod(j).templates[t].media # NoAttr
          /\ HasScheme(SourcePeriod(j).templates[t].media[1])
  \/ \E b \in DOMAIN SourcePeriod(j).base_urls :
       /\ SourcePeriod(j).base_urls[b] # NoAttr
       /\ HasScheme(SourcePeriod(j).base_urls[b][1])

\* Nothing but the references can make the DASH concatenation fail: one
\* Period per manifest, a mediaPresentationDuration that parses, a text in
\* every BaseURL.
WellFormedButReferences ==
  /\ SinglePeriodManifests
  /\ DurationsKnown
  /\ \A j \in Jobs : \A b \in DOMAIN SourcePeriod(j).base_urls :
       SourcePeriod(j).base_urls[b] # NoAttr

\* C13: when a manifest holds a reference that is a URI with a scheme, the
\* DASH concatenation, once called, has failed with UnsupportedReferenceError,
\* nothing is written and the node is Errored.
C13_AbsoluteReferenceFailsConcat ==
  (Invoked("DASH") # {} /\ NumJobs >= 1 /\ WellFormedButReferences
     /\ \E j \in Jobs : AbsoluteReference(j)) =>
    /\ \A k \in Invoked("DASH") : concat_log[k].err = "UnsupportedReferenceError"
    /\ master_dash = <<>>
    /\ status = "Errored"

\* The DASH concatenation that failed, if one did.
DashFailed ==
  \E k \in 1..Len(concat_log) : concat_log[k].format = "DASH" /\ concat_log[k].err # ""

\* C14: a step in which the DASH concatenation fails leaves the output file
\* as it was, and it was never written before; and whenever the output file
\* is written, it holds the period of every one of the N packagers.
C14_FailedConcatWritesNothing ==
  /\ [][(Len(concat_log') > Len(concat_log)
          /\ concat_log'[Len(concat_log')].format = "DASH"
          /\ concat_log'[Len(concat_log')].err # "")
        => (master_dash' = master_dash /\ master_dash = <<>>)]_vars
  /\ [](DashFailed => master_dash = <<>>)
  /\ [](master_dash # <<>> => \A j \in Jobs : PeriodsOf(j) # {})

\* Three packagers are Finished; the third manifest has a BaseURL without
\* text: the concatenation failed at the third and nothing is written.
C14_Witness ==
  /\ NumJobs = 3
  /\ concat_log = <<[format |-> "DASH", err |-> "AssertionError"]>>
  /\ SinglePeriodManifests
  /\ SourcePeriod(0).base_urls = <<>>
  /\ SourcePeriod(1).base_urls = <<>>
  /\ SourcePeriod(2).base_urls = <<NoAttr>>
  /\ streaming_mode = "LIVE"
  /\ master_dash = <<>>
  /\ status = "Errored"

\* C18 as stated: whenever the node is Errored, no output file is written.
C18_ErroredWritesNothing == status = "Errored" => master_dash = <<>>

\* The HLS concatenation that failed, if one did.
HlsFailed ==
  \E k \in 1..Len(concat_log) : concat_log[k].format = "HLS" /\ concat_log[k].err # ""

\* C18: when the node is Errored, the output file is written exactly if the
\* DASH concatenation succeeded and the HLS concatenation after it raised;
\* an HLS concatenation that raised, DASH being configured, came after a
\* successful DASH concatenation, whose file stays.
C18_ErroredAfterDashKeepsFile ==
  status = "Errored" =>
    /\ master_dash # <<>> <=> (DashSucceeded /\ HlsFailed)
    /\ (HlsFailed /\ "DASH" \in manifest_format) => DashSucceeded
    /\ (exc # <<>> /\ exc[1].type = "RuntimeError") => master_dash = <<>>
    /\ DashFailed => master_dash = <<>>

\* DASH and HLS are configured, the DASH file is written, then the HLS
\* concatenation raises: the node is Errored with the file written.
C18_Witness ==
  /\ status = "Errored"
  /\ manifest_format = {"DASH", "HLS"}
  /\ NumJobs = 2
  /\ concat_log = <<[format |-> "DASH", err |-> ""],
                    [format |-> "HLS", err |-> "ModuleNotFoundError"]>>
  /\ master_dash # <<>>
  /\ Len(master_dash[1].periods) = 2

\* Some packager is Errored and none is Running.
ErroredAndNoneRunning ==
  /\ \E j \in Jobs : packager_status[j] = "Errored"
  /\ \A j \in Jobs : packager_status[j] # "Running"

\* The packager of lowest index that is not Finished is Running.
RunningBelowEveryErrored ==
  \E k \in Jobs :
    /\ packager_status[k] = "Running"
    /\ \A j \in Jobs : j < k => packager_status[j] = "Finished"

\* C19: once some packager is Errored and none is Running, the node, its
\* thread being scheduled fairly, eventually is Errored; and as long as a
\* packager is Running below every Errored one, the node is Running, raised
\* nothing and is in its sleep or in its for loop.
C19_ErroredEventuallyReported ==
  /\ ErroredAndNoneRunning ~> (status = "Errored")
  /\ [](RunningBelowEveryErrored =>
          (status = "Running" /\ exc = <<>> /\ pc \in {"sleep", "poll"}))

\* Packager 1 fell first, packager 0 finished after, then the pass raised for
\* packager 1.
C19_Witness ==
  /\ NumJobs = 3
  /\ out_of_order
  /\ packager_status[0] = "Finished"
  /\ packager_status[1] = "Errored"
  /\ packager_status[2] # "Running"
  /\ last_pass = "raised"
  /\ status = "Errored"
  /\ exc = <<PackagerErrored(1)>>

\* C20: with no packager, a pass never returns early and never raises for a
\* packager: its for loop ends at once and the concatenations follow; DASH
\* being configured, _dash_concat raises IndexError, nothing is written, the
\* node is never Finished and, its thread being scheduled fairly, eventually
\* is Errored.
C20_NoPackagerConcatFails ==
  /\ [](NumJobs = 0 =>
          /\ last_pass # "skipped"
          /\ reads = <<>>
          /\ exc # <<>> => exc[1].type # "RuntimeError"
          /\ "DASH" \in manifest_format =>
               /\ status # "Finished"
               /\ master_dash = <<>>
               /\ concat_log \in {<<>>, <<[format |-> "DASH", err |-> "IndexError"]>>}
               /\ concat_log # <<>> => status = "Errored")
  /\ [][(NumJobs = 0 /\ pc = "poll") => pc' = "dash"]_vars
  /\ (NumJobs = 0 /\ "DASH" \in manifest_format) ~> (status = "Errored")

\* No packager, DASH configured: the first pass called _dash_concat, which
\* raised IndexError.
C20_Witness ==
  /\ NumJobs = 0
  /\ "DASH" \in manifest_format
  /\ concat_log = <<[format |-> "DASH", err |-> "IndexError"]>>
  /\ exc = <<ConcatFailed("IndexError")>>
  /\ status = "Errored"
  /\ master_dash = <<>>

\* The five int containers of x + y are the sums of those of x and of y.
ContainersAdded(x, y, sum) ==
  /\ sum.years = x.years + y.years
  /\ sum.months = x.months + y.months
  /\ sum.days = x.days + y.days
  /\ sum.hours = x.hours + y.hours
  /\ sum.minutes = x.minutes + y.minutes

\* C15 as stated: a + b = b + a and (a + b) + c = a + (b + c) for all
\* durations, every container of a + b being the sum of the two containers.
C15_AddCommutesAndAssociates ==
  (calc # <<>> /\ calc.sums # <<>>) =>
    /\ calc.sums[1].ab = calc.sums[1].ba
    /\ calc.sums[1].ab_c = calc.sums[1].a_bc
    /\ ContainersAdded(calc.objects[1], calc.objects[2], calc.sums[1].ab)

\* The seconds of every text are a whole number.
WholeSeconds == \A k \in 1..3 : calc.texts[k].s.f = 0

\* C15: a + b = b + a for all durations; (a + b) + c = a + (b + c) when the
\* seconds of a, b and c are whole numbers; the int containers of a + b are
\* the sums of the containers, nothing being carried (30 hours and 30 hours
\* are 60 hours and 0 days), and whole seconds add up to their sum.
C15_AddCommutesAndAssociatesOnWhole ==
  (calc # <<>> /\ calc.sums # <<>>) =>
    /\ calc.sums[1].ab = calc.sums[1].ba
    /\ WholeSeconds => calc.sums[1].ab_c = calc.sums[1].a_bc
    /\ ContainersAdded(calc.objects[1], calc.objects[2], calc.sums[1].ab)
    /\ ContainersAdded(calc.sums[1].ab, calc.objects[3], calc.sums[1].ab_c)
    /\ (calc.objects[1].hours = 30 /\ calc.objects[2].hours = 30) =>
         (calc.sums[1].ab.hours = 60 /\ calc.sums[1].ab.days = 0)
    /\ WholeSeconds =>
         calc.sums[1].ab_c.seconds
           = FloatSeconds(GroupFloat(calc.texts[1].s) + GroupFloat(calc.texts[2].s)
                          + GroupFloat(calc.texts[3].s))

\* 30 hours 10 seconds, 30 hours 10 seconds and 10 seconds: 60 hours and 0
\* days after the first addition, 30.0 seconds in both groupings.
C15_Witness ==
  /\ calc # <<>>
  /\ calc.sums # <<>>
  /\ Text(calc.texts[1]) = "P0Y0M0DT30H0M10S"
  /\ Text(calc.texts[2]) = "P0Y0M0DT30H0M10S"
  /\ Text(calc.texts[3]) = "P0Y0M0DT0H0M10S"
  /\ calc.sums[1].ab.hours = 60
  /\ calc.sums[1].ab.days = 0
  /\ calc.sums[1].ab_c = calc.sums[1].a_bc
  /\ Text(ISO8601Str(calc.sums[1].ab_c)) = "P0Y0M0DT60H0M30.0S"

\* C16 as stated: str(ISO8601.parse(s)) is s for every text s in canonical
\* form, whole seconds without a point ("10S") included.
C16_RoundTripIsExact ==
  (calc # <<>> /\ calc.strs # <<>>) =>
    \A k \in 1..3 : calc.strs[k] = calc.texts[k]

\* C16: str(ISO8601.parse(s)) is s for every text s in canonical form whose
\* seconds are written with a point and one digit after it; seconds written
\* without a point come back with ".0" after them.
C16_RoundTripKeepsPointedSeconds ==
  (calc # <<>> /\ calc.strs # <<>>) =>
    \A k \in 1..3 :
      IF calc.texts[k].s.k = "dec"
      THEN calc.strs[k] = calc.texts[k]
      ELSE calc.strs[k] = [calc.texts[k] EXCEPT !.s = DecGroup(@.n, 0)]

\* "P0Y0M0DT30H0M10.5S" and "P0Y0M0DT0H0M0.1S" come back as they are,
\* "P0Y0M0DT0H0M10S" comes back as "P0Y0M0DT0H0M10.0S".
C16_Witness ==
  /\ calc # <<>>
  /\ calc.strs # <<>>
  /\ Text(calc.texts[1]) = "P0Y0M0DT30H0M10.5S"
  /\ Text(calc.strs[1]) = "P0Y0M0DT30H0M10.5S"
  /\ Text(calc.texts[2]) = "P0Y0M0DT0H0M0.1S"
  /\ Text(calc.strs[2]) = "P0Y0M0DT0H0M0.1S"
  /\ Text(calc.texts[3]) = "P0Y0M0DT0H0M10S"
  /\ Text(calc.strs[3]) = "P0Y0M0DT0H0M10.0S"

====
